---- MODULE Spec2Model ----
(***************************************************************************)
(* Reddit Mastermind: the LangGraph pipeline of backend/reddit_mastermind.py *)
(* (planner -> plan_critic -> should_refine_plan -> refine_plan ... ->       *)
(* generate_content -> final_critic -> END) and the background job of        *)
(* backend/app.py that runs it.                                              *)
(*                                                                           *)
(* Scores are floats in [0, 10] in the source; here they are kept in tenths  *)
(* (7.5 is 75), which preserves every comparison the code makes.             *)
(* A Python dict is a function whose DOMAIN is its key set, so a missing key *)
(* (KeyError) is a key outside the DOMAIN.                                   *)
(***************************************************************************)
EXTENDS Integers, Sequences, FiniteSets, TLC

VARIABLES
    capability,     \* environment: the answers the generation capability can give
    inbox,          \* the requests that clients are about to POST
    tasks,          \* app.py: background tasks added, job_id -> request
    jobs_db,        \* app.py: job_id -> JobResponse
    calendars_db,   \* app.py: calendar_id -> CalendarResponse
    pc,             \* position of the background task: the graph node about to run
    state,          \* the run-state dict threaded through the graph
    exc,            \* the exception propagating out of the graph ("None" if none)
    posts,          \* content_generator_agent local: posts created so far
    comments,       \* content_generator_agent local: comments created so far
    i,              \* content_generator_agent local: index of the plan item (1-based)
    j,              \* content_generator_agent local: 0 = post step, k >= 1 = k-th commenter
    post_time,      \* content_generator_agent local: parsed time of the current post
    response,       \* what the most recent generation call returned
    stage_log,      \* history: the nodes entered, in order
    gate_log,       \* history: the decisions returned by should_refine_plan
    critic_log,     \* history: outcome of every plan-critic generation call
    other_failed,   \* history: some generation call other than the plan critic's failed
    call_log,       \* history: the generation calls made, in order
    post_failed,    \* history: the plan items whose post generation failed
    attempted       \* history: the <<item, commenter>> pairs whose comment was attempted

vars == <<capability, call_log, inbox, tasks, jobs_db, calendars_db, pc, state, exc, posts,
          comments, i, j, post_time,
          response, stage_log, gate_log, critic_log, other_failed, post_failed,
          attempted>>

(***************************************************************************)
(* Bounds of the model and constants of the program                        *)
(***************************************************************************)
\* longest plan the generation capability returns in the model
MaxPosts == 2

\* largest counter / ceiling fed to the gate when it is checked on its own
MaxGateIter == 3

\* number of requests posted when several jobs are followed
MaxJobs == 2

\* should_refine_plan: overall_score >= 7.5
THRESHOLD == 75

\* generate_reddit_calendar: "max_iterations": 2
MAX_ITERATIONS == 2

\* QualityScore: Field(ge=0, le=10)
MAX_SCORE == 100

\* comment_result.get('delay_minutes', 30)
DEFAULT_DELAY == 30

\* minutes in a day, for strptime / strftime
DAY == 1440

\* the longest realistic delay the comment prompt asks for, in minutes
MAX_DELAY == 360

\* CalendarRequest.personas: min_items=2
MIN_PERSONAS == 2

\* CalendarRequest.posts_per_week: le=15
MAX_POSTS_PER_WEEK == 15

\* CalendarRequest.week_number: le=52
MAX_WEEK_NUMBER == 52

\* validate_subreddits: len(sub) < 4 is rejected
MIN_SUBREDDIT_LEN == 4

(***************************************************************************)
(* Python dicts                                                            *)
(***************************************************************************)
Has(d, k) == k \in DOMAIN d

\* {**d, k: v}
Put(d, k, v) == (k :> v) @@ d

(***************************************************************************)
(* Inputs of a run                                                         *)
(***************************************************************************)
Persona(u) == [username |-> u]

\* the validated request: at least two personas, one subreddit, one keyword
Request ==
    [company_info   |-> "Slideforge",
     personas       |-> <<Persona("riley_ops"), Persona("jordan_consults")>>,
     subreddits     |-> <<"r/startups">>,
     target_queries |-> <<"pitch deck help">>,
     posts_per_week |-> MaxPosts,
     week_number    |-> 1]

\* the requests a client may POST: too few personas, two personas with one
\* username, no or a malformed subreddit, no query, counts at and beyond their limits
RequestChoices ==
    { [company_info   |-> "Slideforge",
       personas       |-> ps,
       subreddits     |-> subs,
       target_queries |-> qs,
       posts_per_week |-> n,
       week_number    |-> w] :
        ps \in { <<Persona("riley_ops")>>,
                 <<Persona("riley_ops"), Persona("jordan_consults")>>,
                 <<Persona("riley_ops"), Persona("riley_ops")>> },
        subs \in { <<>>, <<"r/startups">>, <<"startups">>, <<"r/x">> },
        qs \in { <<>>, <<"pitch deck help">> },
        n \in {0, MaxPosts, MAX_POSTS_PER_WEEK, MAX_POSTS_PER_WEEK + 1},
        w \in {0, 1, MAX_WEEK_NUMBER, MAX_WEEK_NUMBER + 1} }

\* sub.startswith('r/') and len(sub), for the subreddit names of the model
SubredditTable ==
    ("r/startups" :> [starts_with_r |-> TRUE, len |-> 10])
    @@ ("startups" :> [starts_with_r |-> FALSE, len |-> 8])
    @@ ("r/x" :> [starts_with_r |-> TRUE, len |-> 3])

\* validate_subreddits does not raise (no name of the model exceeds 30 characters)
validate_subreddits(v) ==
    \A k \in 1..Len(v) :
        /\ SubredditTable[v[k]].starts_with_r
        /\ SubredditTable[v[k]].len >= MIN_SUBREDDIT_LEN

\* CalendarRequest validates: the Field bounds and the validators (no list of the
\* model reaches its max_items, and every text of the model has a valid length)
CalendarRequestValid(request) ==
    /\ Len(request.personas) >= MIN_PERSONAS
    /\ Len(request.subreddits) >= 1
    /\ validate_subreddits(request.subreddits)
    /\ Len(request.target_queries) >= 1
    /\ request.posts_per_week >= 1
    /\ request.posts_per_week <= MAX_POSTS_PER_WEEK
    /\ request.week_number >= 1
    /\ request.week_number <= MAX_WEEK_NUMBER

\* personas_dict = {p.username: p for p in state['personas']}
personas_dict(st) ==
    [u \in {st.personas[k].username : k \in 1..Len(st.personas)} |->
        CHOOSE p \in {st.personas[k] : k \in 1..Len(st.personas)} : p.username = u]

(***************************************************************************)
(* What the generation capability can answer                               *)
(***************************************************************************)
\* chain.invoke raised (transport failure or output that is not JSON)
LLMError == [error |-> "GenerationError"]

IsError(r) == "error" \in DOMAIN r

PostPlan(primary, commenters, date, time) ==
    [subreddit           |-> "r/startups",
     target_keyword      |-> "pitch deck help",
     primary_persona     |-> primary,
     commenting_personas |-> commenters,
     scheduled_date      |-> date,
     scheduled_time      |-> time]

\* plan items the capability may return: a commenter outside the roster, a
\* well-formed item with two commenters, an unparsable date, a well-formed item
\* with a date that is not zero-padded, a primary persona outside the roster, and
\* two well-formed items in a row, with one and with two commenters
Catalogue ==
    << PostPlan("riley_ops", <<"emily_econ", "jordan_consults">>, "2025-01-06", "09:00"),
       PostPlan("riley_ops", <<"jordan_consults", "riley_ops">>, "2025-01-07", "09:00"),
       PostPlan("jordan_consults", <<>>, "next monday", "09:00"),
       PostPlan("jordan_consults", <<"riley_ops">>, "2025-1-9", "14:30"),
       PostPlan("emily_econ", <<"riley_ops">>, "2025-01-10", "14:30"),
       PostPlan("jordan_consults", <<"riley_ops">>, "2025-01-06", "14:30"),
       PostPlan("riley_ops", <<"jordan_consults", "riley_ops">>, "2025-01-07", "14:30") >>

\* the item lists of the plans: every run of at most MaxPosts consecutive items
PlanChoices ==
    { SubSeq(Catalogue, w[1], w[1] + w[2] - 1) :
        w \in { v \in (1..Len(Catalogue)) \X (0..MaxPosts) :
                   v[1] + v[2] - 1 <= Len(Catalogue) } }

PlanResults ==
    { [week_number |-> 1, start_date |-> "2025-01-06", posts |-> p] : p \in PlanChoices }
    \cup { [week_number |-> 1, start_date |-> "2025-01-06"] }

OverallChoices == {74, 75, 110}

SubScoreChoices == {30, 90}

CriticResults ==
    { [naturalness |-> s, authenticity |-> s, engagement_potential |-> s,
       subtlety |-> s, overall_score |-> o, issues |-> <<"too uniform">>] :
        o \in OverallChoices, s \in SubScoreChoices }

PostResults == { [title |-> "t", body |-> "b"], [title |-> "t"] }

CommentResults ==
    { [comment_text |-> "c"],
      [comment_text |-> "c", delay_minutes |-> -5],
      [comment_text |-> "c", delay_minutes |-> 900] }

\* everything the capability can answer to the four kinds of call; a run draws its
\* answers from the `capability` it is given
FullCapability ==
    [plans    |-> PlanResults,
     critics  |-> CriticResults,
     posts    |-> PostResults,
     comments |-> CommentResults]

\* a capability with few answers, for following several jobs: one plan of one
\* well-formed item with one commenter, one critique below the threshold, one post
\* and one comment (every call can still raise)
SmallCapability ==
    [plans    |-> { [week_number |-> 1, start_date |-> "2025-01-06",
                     posts |-> <<Catalogue[6]>>] },
     critics  |-> { r \in CriticResults :
                      r.naturalness = 90 /\ r.overall_score < THRESHOLD },
     posts    |-> { [title |-> "t", body |-> "b"] },
     comments |-> { [comment_text |-> "c"] }]

(***************************************************************************)
(* Data models (pydantic)                                                  *)
(***************************************************************************)
\* WeekPlan(**result) validates
WeekPlanValid(result) == {"week_number", "start_date", "posts"} \subseteq DOMAIN result

WeekPlan(result) ==
    [week_number   |-> result.week_number,
     start_date    |-> result.start_date,
     posts         |-> result.posts,
     quality_score |-> "None"]

ScoreFields == {"naturalness", "authenticity", "engagement_potential", "subtlety",
                "overall_score"}

\* QualityScore(**result) validates
QualityScoreValid(result) ==
    /\ ScoreFields \subseteq DOMAIN result
    /\ \A f \in ScoreFields : result[f] >= 0 /\ result[f] <= MAX_SCORE

QualityScore(result) ==
    [naturalness          |-> result.naturalness,
     authenticity         |-> result.authenticity,
     engagement_potential |-> result.engagement_potential,
     subtlety             |-> result.subtlety,
     overall_score        |-> result.overall_score,
     issues               |-> IF Has(result, "issues") THEN result.issues ELSE <<>>,
     suggestions          |-> IF Has(result, "suggestions") THEN result.suggestions ELSE <<>>]

\* json.dumps(result)
json_dumps(result) == [json |-> result]

(***************************************************************************)
(* The graph                                                               *)
(***************************************************************************)
\* build_workflow: set_entry_point
EntryPoint == "planner"

\* a wiring slip: refine_plan goes straight to content generation
Edge_RefineSkipsCritic(node) ==
    CASE node = "planner"          -> "plan_critic"
      [] node = "plan_critic"      -> "should_refine_plan"
      [] node = "refine_plan"      -> "generate_content"
      [] node = "generate_content" -> "final_critic"
      [] node = "final_critic"     -> "END"

\* build_workflow: add_edge; the conditional edge of plan_critic is routed by
\* should_refine_plan
Edge(node) ==
    CASE node = "planner"          -> "plan_critic"
      [] node = "plan_critic"      -> "should_refine_plan"
      [] node = "refine_plan"      -> "plan_critic"
      [] node = "generate_content" -> "final_critic"
      [] node = "final_critic"     -> "END"

\* build_workflow: the mapping of add_conditional_edges
ConditionalEdge(decision) ==
    CASE decision = "refine_plan"      -> "refine_plan"
      [] decision = "generate_content" -> "generate_content"

\* generate_reddit_calendar: initial_state
initial_state(request) ==
    [company_info         |-> request.company_info,
     personas             |-> request.personas,
     subreddits           |-> request.subreddits,
     target_queries       |-> request.target_queries,
     posts_per_week       |-> request.posts_per_week,
     week_number          |-> request.week_number,
     refinement_iteration |-> 0,
     max_iterations       |-> MAX_ITERATIONS]

NoResponse == [none |-> TRUE]

TheJob == "job_1"

TheCalendar == "cal_1"

Init ==
    /\ inbox = {Request}
    /\ tasks = <<>>
    /\ jobs_db = <<>>
    /\ calendars_db = <<>>
    /\ pc = "idle"
    /\ state = <<>>
    /\ exc = "None"
    /\ posts = <<>>
    /\ comments = <<>>
    /\ i = 1
    /\ j = 0
    /\ post_time = 0
    /\ response = NoResponse
    /\ stage_log = <<>>
    /\ gate_log = <<>>
    /\ critic_log = <<>>
    /\ other_failed = FALSE
    /\ post_failed = {}
    /\ call_log = <<>>
    /\ capability = FullCapability
    /\ attempted = {}

genvars == <<posts, comments, i, j, post_time, post_failed, attempted>>

\* the graph runtime moves to `node`
Goto(node) ==
    /\ pc' = node
    /\ stage_log' = IF node = "END" THEN stage_log ELSE Append(stage_log, node)

\* an exception leaves the node and the graph
Raise(e) ==
    /\ pc' = "raised"
    /\ exc' = e
    /\ stage_log' = stage_log

(***************************************************************************)
(* app.py: the job                                                         *)
(***************************************************************************)
\* job_id = f"job_{now}_{os.urandom(4).hex()}": an identifier no job has yet, here
\* "job_" and the ordinal of the job (jobs are never removed from jobs_db)
new_job_id == "job_" \o ToString(Cardinality(DOMAIN jobs_db) + 1)

\* calendar_id = f"cal_{now}_{os.urandom(4).hex()}": an identifier no calendar ever
\* had, here "cal_" and the ordinal of the calendar among those ever created
new_calendar_id ==
    "cal_" \o ToString(Cardinality({ jid \in DOMAIN jobs_db :
                                        Has(jobs_db[jid], "result") }) + 1)

\* The handlers and the background task are coroutines of one event loop, and the
\* task never awaits (it calls generate_reddit_calendar synchronously): a handler
\* runs only while no task is in the middle of its run.
loop_is_free == pc \in {"idle", "done"}

\* every background task writes the record of the first job
current_job_First == TheJob

\* the job_id argument of the background task that is running
current_job == CHOOSE jid \in DOMAIN jobs_db : jobs_db[jid].status = "processing"

\* POST /api/calendar/generate
generate_calendar ==
    /\ loop_is_free
    /\ \E request \in inbox :
        /\ inbox' = inbox \ {request}
        /\ IF CalendarRequestValid(request)
           THEN \* 202: the job is stored and the background task is added
                /\ jobs_db' = Put(jobs_db, new_job_id,
                                  [job_id |-> new_job_id, status |-> "pending"])
                /\ tasks' = Put(tasks, new_job_id, request)
           ELSE \* 422: the handler body is not entered
                UNCHANGED <<jobs_db, tasks>>
    /\ UNCHANGED <<capability, call_log, calendars_db, pc, state, exc, genvars,
                   response, stage_log, gate_log, critic_log, other_failed>>

\* process_calendar_generation, up to app.invoke(initial_state). The coroutine never
\* awaits, so a task starts only when no other task is running; it starts with its
\* own run state and locals, and the history of the run starts anew.
process_calendar_generation ==
    /\ loop_is_free
    /\ \E job_id \in DOMAIN tasks :
        /\ jobs_db[job_id].status = "pending"
        /\ jobs_db' = Put(jobs_db, job_id, Put(jobs_db[job_id], "status", "processing"))
        /\ state' = initial_state(tasks[job_id])
    /\ pc' = EntryPoint
    /\ stage_log' = <<EntryPoint>>
    /\ exc' = "None"
    /\ posts' = <<>>
    /\ comments' = <<>>
    /\ i' = 1
    /\ j' = 0
    /\ post_time' = 0
    /\ response' = NoResponse
    /\ gate_log' = <<>>
    /\ critic_log' = <<>>
    /\ other_failed' = FALSE
    /\ post_failed' = {}
    /\ attempted' = {}
    /\ call_log' = <<>>
    /\ UNCHANGED <<capability, inbox, tasks, calendars_db>>

(***************************************************************************)
(* planner_agent                                                           *)
(***************************************************************************)
planner_ok(r) == ~IsError(r) /\ WeekPlanValid(r)

\* the dict the node returns
planner_return(st, r) ==
    IF planner_ok(r) THEN Put(st, "strategic_plan", WeekPlan(r)) ELSE st

planner_agent ==
    /\ pc = "planner"
    /\ \E r \in {LLMError} \cup capability.plans :
        /\ response' = r
        /\ call_log' = Append(call_log, <<"planner">>)
        /\ state' = planner_return(state, r)
        /\ other_failed' = (other_failed \/ ~planner_ok(r))
    /\ Goto(Edge("planner"))
    /\ UNCHANGED <<capability, inbox, tasks, jobs_db, calendars_db, exc, genvars,
                   gate_log, critic_log>>

(***************************************************************************)
(* plan_critic_agent                                                       *)
(***************************************************************************)
critic_ok(r) == ~IsError(r) /\ QualityScoreValid(r)

\* the except branch approves: it stores a top score
plan_critic_return_PassOnFailure(st, r) ==
    IF critic_ok(r)
    THEN Put(Put(st, "quality_score", QualityScore(r)), "plan_critique", json_dumps(r))
    ELSE Put(st, "quality_score",
             [naturalness |-> MAX_SCORE, authenticity |-> MAX_SCORE,
              engagement_potential |-> MAX_SCORE, subtlety |-> MAX_SCORE,
              overall_score |-> MAX_SCORE, issues |-> <<>>, suggestions |-> <<>>])

\* the except branch resets the score to the all-zero placeholder
plan_critic_return_ResetsOnFailure(st, r) ==
    IF critic_ok(r)
    THEN Put(Put(st, "quality_score", QualityScore(r)), "plan_critique", json_dumps(r))
    ELSE Put(st, "quality_score",
             [naturalness |-> 0, authenticity |-> 0, engagement_potential |-> 0,
              subtlety |-> 0, overall_score |-> 0, issues |-> <<>>, suggestions |-> <<>>])

plan_critic_return(st, r) ==
    IF critic_ok(r)
    THEN Put(Put(st, "quality_score", QualityScore(r)), "plan_critique", json_dumps(r))
    ELSE st

critic_outcome(r) ==
    IF ~critic_ok(r) THEN "fail"
    ELSE IF r.overall_score >= THRESHOLD THEN "ok" ELSE "low"

plan_critic_agent ==
    /\ pc = "plan_critic"
    /\ IF ~Has(state, "strategic_plan")
       THEN \* state['strategic_plan'] before the try
            /\ Raise("KeyError: 'strategic_plan'")
            /\ UNCHANGED <<state, response, critic_log, call_log>>
       ELSE /\ \E r \in {LLMError} \cup capability.critics :
                /\ response' = r
                /\ call_log' = Append(call_log, <<"plan_critic">>)
                /\ state' = plan_critic_return(state, r)
                /\ critic_log' = Append(critic_log, critic_outcome(r))
            /\ Goto(Edge("plan_critic"))
            /\ exc' = exc
    /\ UNCHANGED <<capability, inbox, tasks, jobs_db, calendars_db, genvars, gate_log,
                   other_failed>>

(***************************************************************************)
(* should_refine_plan                                                      *)
(***************************************************************************)
\* an off-by-one slip: > instead of >= on the iteration ceiling
should_refine_plan_CeilingOffByOne(st) ==
    IF st.quality_score.overall_score >= THRESHOLD
    THEN "generate_content"
    ELSE IF st.refinement_iteration > st.max_iterations
         THEN "generate_content"
         ELSE "refine_plan"

\* a boundary slip: > instead of >= on the threshold
should_refine_plan_StrictThreshold(st) ==
    IF st.quality_score.overall_score > THRESHOLD
    THEN "generate_content"
    ELSE IF st.refinement_iteration >= st.max_iterations
         THEN "generate_content"
         ELSE "refine_plan"

\* the threshold test forgotten: only the iteration budget decides
should_refine_plan_BudgetOnly(st) ==
    IF st.refinement_iteration >= st.max_iterations
    THEN "generate_content"
    ELSE "refine_plan"

\* the gate also looks at a sub-score of the critique
should_refine_plan_ReadsNaturalness(st) ==
    IF st.quality_score.overall_score >= THRESHOLD /\ st.quality_score.naturalness >= THRESHOLD
    THEN "generate_content"
    ELSE IF st.refinement_iteration >= st.max_iterations
         THEN "generate_content"
         ELSE "refine_plan"

should_refine_plan(st) ==
    IF st.quality_score.overall_score >= THRESHOLD
    THEN "generate_content"
    ELSE IF st.refinement_iteration >= st.max_iterations
         THEN "generate_content"
         ELSE "refine_plan"

\* the conditional edge out of plan_critic
route_plan_critic ==
    /\ pc = "should_refine_plan"
    /\ IF ~Has(state, "quality_score")
       THEN \* state['quality_score'] with no score ever stored
            /\ Raise("KeyError: 'quality_score'")
            /\ gate_log' = gate_log
       ELSE /\ gate_log' = Append(gate_log, should_refine_plan(state))
            /\ Goto(ConditionalEdge(should_refine_plan(state)))
            /\ exc' = exc
    /\ UNCHANGED <<capability, call_log, inbox, tasks, jobs_db, calendars_db, state,
                   genvars, response, critic_log, other_failed>>

(***************************************************************************)
(* refine_plan_agent                                                       *)
(***************************************************************************)
\* the except branch forgets the counter
refine_plan_return_NoCountOnFailure(st, r) ==
    IF planner_ok(r)
    THEN Put(Put(st, "strategic_plan", WeekPlan(r)),
             "refinement_iteration", st.refinement_iteration + 1)
    ELSE st

\* the success branch forgets to store the new plan
refine_plan_return_KeepsOldPlan(st, r) ==
    Put(st, "refinement_iteration", st.refinement_iteration + 1)

refine_plan_return(st, r) ==
    IF planner_ok(r)
    THEN Put(Put(st, "strategic_plan", WeekPlan(r)),
             "refinement_iteration", st.refinement_iteration + 1)
    ELSE Put(st, "refinement_iteration", st.refinement_iteration + 1)

refine_plan_agent ==
    /\ pc = "refine_plan"
    /\ \E r \in {LLMError} \cup capability.plans :
        /\ response' = r
        /\ call_log' = Append(call_log, <<"refine_plan">>)
        /\ state' = refine_plan_return(state, r)
        /\ other_failed' = (other_failed \/ ~planner_ok(r))
    /\ Goto(Edge("refine_plan"))
    /\ UNCHANGED <<capability, inbox, tasks, jobs_db, calendars_db, exc, genvars,
                   gate_log, critic_log>>

(***************************************************************************)
(* content_generator_agent, one step per generation call                   *)
(***************************************************************************)
DateTable ==
    ("2025-01-06" :> 0) @@ ("2025-01-07" :> 1) @@ ("2025-1-9" :> 3) @@ ("2025-01-10" :> 4)

TimeTable == ("09:00" :> 540) @@ ("14:30" :> 870)

\* datetime.strptime(f"{date} {time}", "%Y-%m-%d %H:%M") does not raise
strptime_ok(date, time) == date \in DOMAIN DateTable /\ time \in DOMAIN TimeTable

\* a parse that keeps the day and drops the time of day
strptime_DateOnly(date, time) == DateTable[date] * DAY

\* the parsed time, in minutes since 2025-01-06 00:00
strptime(date, time) == DateTable[date] * DAY + TimeTable[time]

\* dt.strftime("%Y-%m-%d %H:%M"): the zero-padded date and time of day
strftime(t) == [date |-> t \div DAY, time |-> t % DAY]

\* comment_result.get('delay_minutes', 30)
get_delay_minutes(r) == IF Has(r, "delay_minutes") THEN r.delay_minutes ELSE DEFAULT_DELAY

\* Optional[str] = None
None == <<>>

post_id_of(n) == <<"P", n>>

\* the identifier counts the comments before this one
comment_id_of_ZeroBased(n) == <<"C", n - 1>>

comment_id_of(n) == <<"C", n>>

RedditPost(n, post_plan, post_result, author, t) ==
    [post_id         |-> post_id_of(n),
     subreddit       |-> post_plan.subreddit,
     title           |-> post_result.title,
     body            |-> post_result.body,
     author_username |-> author.username,
     timestamp       |-> strftime(t),
     keyword_ids     |-> <<post_plan.target_keyword>>]

RedditComment(n, post, parent_id, comment_result, commenter, t) ==
    [comment_id        |-> comment_id_of(n),
     post_id           |-> post.post_id,
     parent_comment_id |-> parent_id,
     comment_text      |-> comment_result.comment_text,
     username          |-> commenter.username,
     timestamp         |-> strftime(t),
     delay_minutes     |-> get_delay_minutes(comment_result)]

ZeroScore ==
    [naturalness |-> 0, authenticity |-> 0, engagement_potential |-> 0,
     subtlety |-> 0, overall_score |-> 0, issues |-> <<>>, suggestions |-> <<>>]

GeneratedContent(ps, cs, q) == [posts |-> ps, comments |-> cs, quality_assessment |-> q]

\* the filter inverted: the earlier comments of the other posts
previous_comments_OtherPosts(cs, pid) == SelectSeq(cs, LAMBDA c : c.post_id # pid)

\* the earlier comments of any post at all
previous_comments_AnyPost(cs, pid) == cs

\* [c for c in comments if c.post_id == post.post_id]
previous_comments(cs, pid) == SelectSeq(cs, LAMBDA c : c.post_id = pid)

\* the first post of the list, whatever the item being processed
current_post_First == posts[1]

\* the post of the plan item being processed: the last one appended
current_post == posts[Len(posts)]

\* the post call returned a usable result and the scheduled time parses
post_ok(post_plan, r) ==
    /\ ~IsError(r)
    /\ {"title", "body"} \subseteq DOMAIN r
    /\ strptime_ok(post_plan.scheduled_date, post_plan.scheduled_time)

\* the outer loop moves to the next plan item
next_item ==
    /\ i' = i + 1
    /\ j' = 0

content_generator_post ==
    /\ pc = "generate_content"
    /\ j = 0
    /\ i <= Len(state.strategic_plan.posts)
    /\ LET post_plan == state.strategic_plan.posts[i]
           roster == personas_dict(state)
       IN IF ~Has(roster, post_plan.primary_persona)
          THEN \* personas_dict[post_plan.primary_persona] before the try
               /\ Raise("KeyError: primary_persona")
               /\ post_failed' = post_failed \cup {i}
               /\ UNCHANGED <<state, posts, comments, i, j, post_time, attempted,
                              call_log, response, other_failed>>
          ELSE /\ \E r \in {LLMError} \cup capability.posts :
                   /\ response' = r
                   /\ call_log' = Append(call_log, <<"post", i>>)
                   /\ other_failed' = (other_failed \/ IsError(r)
                                         \/ ~({"title", "body"} \subseteq DOMAIN r))
                   /\ post_failed' = IF post_ok(post_plan, r)
                                     THEN post_failed
                                     ELSE post_failed \cup {i}
                   /\ IF post_ok(post_plan, r)
                      THEN LET t == strptime(post_plan.scheduled_date,
                                             post_plan.scheduled_time)
                           IN /\ post_time' = t
                              /\ posts' = Append(posts,
                                     RedditPost(i, post_plan, r,
                                                roster[post_plan.primary_persona], t))
                              /\ IF Len(post_plan.commenting_personas) > 0
                                 THEN i' = i /\ j' = 1
                                 ELSE next_item
                      ELSE \* except: "Post generation failed", continue
                           /\ next_item
                           /\ UNCHANGED <<posts, post_time>>
               /\ UNCHANGED <<state, comments, attempted, pc, exc, stage_log>>
    /\ UNCHANGED <<capability, inbox, tasks, jobs_db, calendars_db, gate_log,
                   critic_log>>

\* the comment call returned a usable result
comment_ok(r) == ~IsError(r) /\ Has(r, "comment_text")

\* the inner loop stays on the same commenting persona
next_commenter_Stay(post_plan) == i' = i /\ j' = j

\* the inner loop moves to the next commenting persona, or the item is finished
next_commenter(post_plan) ==
    IF j < Len(post_plan.commenting_personas)
    THEN i' = i /\ j' = j + 1
    ELSE next_item

content_generator_comment ==
    /\ pc = "generate_content"
    /\ j >= 1
    /\ LET post_plan == state.strategic_plan.posts[i]
           roster == personas_dict(state)
           commenter_username == post_plan.commenting_personas[j]
           post == current_post
           previous == previous_comments(comments, post.post_id)
           \* j > 0 and len(comments) > 0 and the post has comments (j is 1-based here)
           may_thread == j > 1 /\ Len(comments) > 0 /\ Len(previous) > 0
       IN /\ attempted' = attempted \cup {<<i, j>>}
          /\ IF ~Has(roster, commenter_username)
             THEN \* personas_dict[commenter_username]: caught by the outer except
                  /\ next_item
                  /\ UNCHANGED <<comments, response, other_failed, call_log>>
             ELSE \E thread \in BOOLEAN : \E r \in {LLMError} \cup capability.comments :
                     LET parent_comment_id ==
                             IF may_thread /\ thread
                             THEN previous[Len(previous)].comment_id
                             ELSE None
                         comment_time == post_time + get_delay_minutes(r)
                     IN /\ response' = r
                        /\ call_log' = Append(call_log, <<"comment", i, j>>)
                        /\ other_failed' = (other_failed \/ ~comment_ok(r))
                        /\ comments' =
                             IF comment_ok(r)
                             THEN Append(comments,
                                      RedditComment(Len(comments) + 1, post,
                                                    parent_comment_id, r,
                                                    roster[commenter_username],
                                                    comment_time))
                             ELSE comments
                        /\ next_commenter(post_plan)
    /\ UNCHANGED <<capability, inbox, tasks, jobs_db, calendars_db, pc, state, exc,
                   posts, post_time, stage_log, gate_log, critic_log, post_failed>>

content_generator_return ==
    /\ pc = "generate_content"
    /\ j = 0
    /\ i > Len(state.strategic_plan.posts)
    /\ state' = Put(state, "generated_content",
                    GeneratedContent(posts, comments, ZeroScore))
    /\ Goto(Edge("generate_content"))
    /\ UNCHANGED <<capability, call_log, inbox, tasks, jobs_db, calendars_db, exc,
                   genvars, response, gate_log, critic_log, other_failed>>

(***************************************************************************)
(* final_critic_agent                                                      *)
(***************************************************************************)
\* the except branch returns the state as it came, like the other agents do
final_critic_return_NoFinalContent(st, r) ==
    IF critic_ok(r)
    THEN LET content == [st.generated_content EXCEPT
                            !.quality_assessment = QualityScore(r)]
         IN Put(Put(Put(st, "generated_content", content),
                    "final_content", content),
                "content_critique", json_dumps(r))
    ELSE st

\* the assessed bundle is rebuilt from the posts alone
final_critic_return_DropsComments(st, r) ==
    IF critic_ok(r)
    THEN LET content == [st.generated_content EXCEPT
                            !.quality_assessment = QualityScore(r),
                            !.comments = <<>>]
         IN Put(Put(Put(st, "generated_content", content),
                    "final_content", content),
                "content_critique", json_dumps(r))
    ELSE Put(st, "final_content", st.generated_content)

\* the bundle is given the plan-level score instead of the final critic's
final_critic_return_PlanScore(st, r) ==
    IF critic_ok(r)
    THEN LET content == [st.generated_content EXCEPT
                            !.quality_assessment = st.quality_score]
         IN Put(Put(Put(st, "generated_content", content),
                    "final_content", content),
                "content_critique", json_dumps(r))
    ELSE Put(st, "final_content", st.generated_content)

\* content.quality_assessment = quality mutates the object that
\* state['generated_content'] also refers to
final_critic_return(st, r) ==
    IF critic_ok(r)
    THEN LET content == [st.generated_content EXCEPT
                            !.quality_assessment = QualityScore(r)]
         IN Put(Put(Put(st, "generated_content", content),
                    "final_content", content),
                "content_critique", json_dumps(r))
    ELSE Put(st, "final_content", st.generated_content)

final_critic_agent ==
    /\ pc = "final_critic"
    /\ \E r \in {LLMError} \cup capability.critics :
        /\ response' = r
        /\ call_log' = Append(call_log, <<"final_critic">>)
        /\ state' = final_critic_return(state, r)
        /\ other_failed' = (other_failed \/ ~critic_ok(r))
    /\ Goto(Edge("final_critic"))
    /\ UNCHANGED <<capability, inbox, tasks, jobs_db, calendars_db, exc, genvars,
                   gate_log, critic_log>>

(***************************************************************************)
(* app.py: the end of process_calendar_generation                          *)
(***************************************************************************)
CalendarResponse(calendar_id, week_number, content) ==
    [calendar_id        |-> calendar_id,
     week_number        |-> week_number,
     posts              |-> content.posts,
     comments           |-> content.comments,
     quality_assessment |-> content.quality_assessment,
     status             |-> "completed"]

\* the except branch puts the job back in the queue
job_failed_Requeues(job, e) == Put(job, "status", "pending")

\* the except branch: the job is FAILED with str(e)
job_failed(job, e) == Put(Put(job, "status", "failed"), "error", e)

\* the job is marked COMPLETED and its calendar is not attached
job_completed_StatusOnly(job, calendar_response) == Put(job, "status", "completed")

\* the job is COMPLETED with its calendar
job_completed(job, calendar_response) ==
    Put(Put(job, "status", "completed"), "result", calendar_response)

\* app.invoke returned: generate_reddit_calendar returns final_state['final_content']
process_completed ==
    /\ pc = "END"
    /\ pc' = "done"
    /\ IF ~Has(state, "final_content")
       THEN /\ jobs_db' = Put(jobs_db, current_job,
                              job_failed(jobs_db[current_job],
                                         "KeyError: 'final_content'"))
            /\ calendars_db' = calendars_db
       ELSE LET calendar_response ==
                    CalendarResponse(new_calendar_id,
                                     tasks[current_job].week_number,
                                     state.final_content)
            IN /\ calendars_db' = Put(calendars_db, new_calendar_id, calendar_response)
               /\ jobs_db' = Put(jobs_db, current_job,
                                 job_completed(jobs_db[current_job],
                                               calendar_response))
    /\ UNCHANGED <<capability, call_log, inbox, tasks, state, exc, genvars, response,
                   stage_log, gate_log, critic_log, other_failed>>

\* app.invoke raised: generate_reddit_calendar re-raises into the except branch
process_failed ==
    /\ pc = "raised"
    /\ pc' = "done"
    /\ jobs_db' = Put(jobs_db, current_job, job_failed(jobs_db[current_job], exc))
    /\ UNCHANGED <<capability, call_log, inbox, tasks, calendars_db, state, exc,
                   genvars, response, stage_log, gate_log, critic_log, other_failed>>

\* DELETE /api/calendar/{calendar_id}; an unknown calendar_id is a 404
delete_calendar ==
    /\ loop_is_free
    /\ \E calendar_id \in DOMAIN calendars_db :
        calendars_db' = [c \in DOMAIN calendars_db \ {calendar_id} |-> calendars_db[c]]
    /\ UNCHANGED <<capability, call_log, inbox, tasks, jobs_db, pc, state, exc, genvars,
                   response, stage_log, gate_log, critic_log, other_failed>>

\* GET /api/calendar/status/{job_id}: returns jobs_db[job_id] and writes nothing
get_job_status ==
    /\ loop_is_free
    /\ \E job_id \in DOMAIN jobs_db : jobs_db[job_id].status \in
            {"pending", "processing", "completed", "failed"}
    /\ UNCHANGED vars

(***************************************************************************)
(* Specifications                                                          *)
(***************************************************************************)
Next ==
    \/ generate_calendar
    \/ process_calendar_generation
    \/ planner_agent
    \/ plan_critic_agent
    \/ route_plan_critic
    \/ refine_plan_agent
    \/ content_generator_post
    \/ content_generator_comment
    \/ content_generator_return
    \/ final_critic_agent
    \/ process_completed
    \/ process_failed
    \/ delete_calendar
    \/ get_job_status

Spec == Init /\ [][Next]_vars

\* every generation call returns or raises, and the task is scheduled
FairSpec == Spec /\ WF_vars(Next)

(***************************************************************************)
(* The gate on its own: should_refine_plan applied to any score, counter   *)
(* and ceiling                                                             *)
(***************************************************************************)
GateOverallChoices == {0, 74, 75, 76, 100}

GateScores ==
    { QualityScore([naturalness |-> s, authenticity |-> s, engagement_potential |-> s,
                    subtlety |-> s, overall_score |-> o]) :
        o \in GateOverallChoices, s \in SubScoreChoices }

GateInit ==
    /\ inbox = {}
    /\ tasks = (TheJob :> Request)
    /\ jobs_db = (TheJob :> [job_id |-> TheJob, status |-> "processing"])
    /\ calendars_db = <<>>
    /\ pc = "should_refine_plan"
    /\ \E q \in GateScores, it \in 0..MaxGateIter, mx \in 0..MaxGateIter :
        state = Put(Put(Put(Put(initial_state(Request),
                                "strategic_plan",
                                WeekPlan([week_number |-> 1, start_date |-> "2025-01-06",
                                          posts |-> <<>>])),
                            "quality_score", q),
                        "refinement_iteration", it),
                    "max_iterations", mx)
    /\ exc = "None"
    /\ posts = <<>>
    /\ comments = <<>>
    /\ i = 1
    /\ j = 0
    /\ post_time = 0
    /\ response = NoResponse
    /\ stage_log = <<"planner", "plan_critic", "should_refine_plan">>
    /\ gate_log = <<>>
    /\ critic_log = <<>>
    /\ other_failed = FALSE
    /\ post_failed = {}
    /\ call_log = <<>>
    /\ capability = FullCapability
    /\ attempted = {}

GateNext == route_plan_critic

GateSpec == GateInit /\ [][GateNext]_vars

(***************************************************************************)
(* The request layer on its own: any request of RequestChoices is posted   *)
(* and, when it is accepted, its background task starts the run            *)
(***************************************************************************)
RequestInit ==
    /\ inbox \in { {request} : request \in RequestChoices }
    /\ tasks = <<>>
    /\ jobs_db = <<>>
    /\ calendars_db = <<>>
    /\ pc = "idle"
    /\ state = <<>>
    /\ exc = "None"
    /\ posts = <<>>
    /\ comments = <<>>
    /\ i = 1
    /\ j = 0
    /\ post_time = 0
    /\ response = NoResponse
    /\ stage_log = <<>>
    /\ gate_log = <<>>
    /\ critic_log = <<>>
    /\ other_failed = FALSE
    /\ post_failed = {}
    /\ call_log = <<>>
    /\ capability = FullCapability
    /\ attempted = {}

(***************************************************************************)
(* Several jobs: MaxJobs requests that differ in their week number are     *)
(* posted, run, polled and their calendars deleted in any order            *)
(***************************************************************************)
JobsInbox == { [Request EXCEPT !.week_number = w] : w \in 1..MaxJobs }

JobsInit ==
    /\ inbox = JobsInbox
    /\ tasks = <<>>
    /\ jobs_db = <<>>
    /\ calendars_db = <<>>
    /\ pc = "idle"
    /\ state = <<>>
    /\ exc = "None"
    /\ posts = <<>>
    /\ comments = <<>>
    /\ i = 1
    /\ j = 0
    /\ post_time = 0
    /\ response = NoResponse
    /\ stage_log = <<>>
    /\ gate_log = <<>>
    /\ critic_log = <<>>
    /\ other_failed = FALSE
    /\ post_failed = {}
    /\ attempted = {}
    /\ call_log = <<>>
    /\ capability = SmallCapability

JobsSpec == JobsInit /\ [][Next]_vars

RequestNext == generate_calendar \/ process_calendar_generation

RequestSpec == RequestInit /\ [][RequestNext]_vars

(***************************************************************************)
(* Properties                                                              *)
(***************************************************************************)
Range(s) == { s[k] : k \in 1..Len(s) }

Count(s, x) == Cardinality({ k \in 1..Len(s) : s[k] = x })

Last(s) == s[Len(s)]

Running == Has(state, "refinement_iteration")

JobStatus == IF Has(jobs_db, TheJob) THEN jobs_db[TheJob].status ELSE "none"

\* C1: in every reachable state of a run 0 <= refinement_iteration <= max_iterations
\* (so also at termination), and no step decreases refinement_iteration.
C1_IterationBoundedMonotone ==
    /\ [](Running => /\ state.refinement_iteration >= 0
                     /\ state.refinement_iteration <= state.max_iterations)
    /\ [][(Running /\ Has(state', "refinement_iteration"))
            => state'.refinement_iteration >= state.refinement_iteration]_vars

\* a run that terminated with the iteration budget used up
C1_Witness ==
    /\ pc = "done"
    /\ JobStatus = "completed"
    /\ Running
    /\ state.refinement_iteration = state.max_iterations
    /\ state.max_iterations > 0

\* C2: every run gets PROCEED from the gate: a run that has terminated has had the
\* gate return generate_content, whatever calls failed.
C2_GateEventuallyProceeds ==
    pc = "done" => "generate_content" \in Range(gate_log)

\* C3: the gate returns generate_content exactly when overall_score >= 7.5 or
\* refinement_iteration >= max_iterations, refine_plan exactly when overall_score < 7.5
\* and refinement_iteration < max_iterations, and the decision is the same for every
\* score with the same overall_score, whatever its four sub-dimensions.
C3_GateRule ==
    gate_log # <<>> =>
        LET d == Last(gate_log)
            overall == state.quality_score.overall_score
            it == state.refinement_iteration
            mx == state.max_iterations
        IN /\ d \in {"generate_content", "refine_plan"}
           /\ pc = d
           /\ (d = "generate_content") <=> (overall >= THRESHOLD \/ it >= mx)
           /\ (d = "refine_plan") <=> (overall < THRESHOLD /\ it < mx)
           /\ \A q \in GateScores :
                q.overall_score = overall =>
                    should_refine_plan(Put(state, "quality_score", q)) = d

\* the gate proceeded on a score of exactly 7.5 with budget left
C3_Witness ==
    /\ gate_log = <<"generate_content">>
    /\ state.quality_score.overall_score = THRESHOLD
    /\ state.refinement_iteration < state.max_iterations

\* C4: if the first plan-critic call returns overall >= 7.5, refine_plan is never
\* entered, the stage after the first gate decision is generate_content, and
\* refinement_iteration stays 0.
C4_FirstCriticOkNoRefinement ==
    (critic_log # <<>> /\ critic_log[1] = "ok") =>
        /\ "refine_plan" \notin Range(stage_log)
        /\ state.refinement_iteration = 0
        /\ Len(critic_log) = 1
        /\ Len(stage_log) >= 4 => stage_log[4] = "generate_content"
        /\ pc = "done" => Len(stage_log) >= 4

\* a run whose first critic call approved the plan, terminated
C4_Witness ==
    /\ pc = "done"
    /\ critic_log = <<"ok">>
    /\ JobStatus = "completed"

\* C5: when every plan-critic call returns a score below 7.5, refine_plan is entered
\* at most max_iterations times, content generation is entered only after exactly
\* max_iterations refinements, and it is entered once the budget is used up.
C5_AlwaysLowRefinesMaxTimes ==
    (critic_log # <<>> /\ Range(critic_log) = {"low"}) =>
        /\ Count(stage_log, "refine_plan") <= state.max_iterations
        /\ "generate_content" \in Range(stage_log)
              => Count(stage_log, "refine_plan") = state.max_iterations
        /\ (Len(critic_log) = state.max_iterations + 1 /\ pc # "should_refine_plan")
              => "generate_content" \in Range(stage_log)
        /\ pc = "done" => "generate_content" \in Range(stage_log)

\* a terminated run with three low critiques, two refinements, one of which failed
C5_Witness ==
    /\ pc = "done"
    /\ critic_log = <<"low", "low", "low">>
    /\ Count(stage_log, "refine_plan") = MAX_ITERATIONS
    /\ JobStatus = "completed"
    /\ other_failed

AllowedSuccessors ==
    { <<"planner", "plan_critic">>,
      <<"plan_critic", "should_refine_plan">>,
      <<"should_refine_plan", "refine_plan">>,
      <<"should_refine_plan", "generate_content">>,
      <<"refine_plan", "plan_critic">>,
      <<"generate_content", "final_critic">> }

\* C6: the nodes entered form a prefix of planner, plan_critic, gate, (refine_plan,
\* plan_critic, gate)*, generate_content, final_critic: planner, generate_content and
\* final_critic at most once, refine_plan always followed by plan_critic,
\* generate_content only after the gate returned generate_content, nothing after
\* final_critic.
C6_StageOrder ==
    /\ stage_log # <<>> => stage_log[1] = "planner"
    /\ \A k \in 1..(Len(stage_log) - 1) :
          <<stage_log[k], stage_log[k + 1]>> \in AllowedSuccessors
    /\ \A n \in {"planner", "generate_content", "final_critic"} :
          Count(stage_log, n) <= 1
    /\ \A k \in 1..Len(stage_log) :
          stage_log[k] = "refine_plan" =>
              /\ k = Len(stage_log) => pc = "refine_plan"
              /\ gate_log[Count(SubSeq(stage_log, 1, k), "should_refine_plan")]
                    = "refine_plan"
    /\ "generate_content" \in Range(stage_log) =>
          /\ gate_log # <<>>
          /\ Last(gate_log) = "generate_content"
          /\ Count(gate_log, "generate_content") = 1
    /\ pc \in {"planner", "plan_critic", "should_refine_plan", "refine_plan",
               "generate_content", "final_critic"} => pc = Last(stage_log)
    /\ pc = "END" => Last(stage_log) = "final_critic"

\* a terminated run with one refinement round
C6_Witness ==
    /\ pc = "done"
    /\ stage_log = <<"planner", "plan_critic", "should_refine_plan", "refine_plan",
                     "plan_critic", "should_refine_plan", "generate_content",
                     "final_critic">>

\* C7: a step of refine_plan raises refinement_iteration by exactly 1; if its
\* generation call failed (or did not parse into a WeekPlan) strategic_plan is what
\* it was, otherwise strategic_plan is the newly parsed plan.
C7_RefineCountsAlways ==
    [][pc = "refine_plan" =>
          /\ state'.refinement_iteration = state.refinement_iteration + 1
          /\ IF planner_ok(response')
             THEN state'.strategic_plan = WeekPlan(response')
             ELSE state'.strategic_plan = state.strategic_plan]_vars

\* a refinement whose call failed has just returned, after the budget's last slot
C7_Witness ==
    /\ pc = "plan_critic"
    /\ Len(stage_log) >= 2
    /\ stage_log[Len(stage_log) - 1] = "refine_plan"
    /\ IsError(response)
    /\ state.refinement_iteration = MAX_ITERATIONS

\* C8: a run in which exactly one plan-critic call failed, no other generation call
\* failed and every plan item's author is in the roster reaches content generation
\* and ends COMPLETED with a content bundle.
C8_CriticFailureAbsorbed ==
    (pc = "done" /\ Count(critic_log, "fail") = 1 /\ ~other_failed
        /\ \A k \in 1..Len(state.strategic_plan.posts) :
              Has(personas_dict(state), state.strategic_plan.posts[k].primary_persona))
    => /\ "generate_content" \in Range(stage_log)
       /\ JobStatus = "completed"
       /\ Has(jobs_db[TheJob], "result")

\* the planner has run and stored no plan: its call, or WeekPlan(**result), failed
PlannerFailed == Len(stage_log) >= 2 /\ ~Has(state, "strategic_plan")

\* C9: when the planner fails, run state is what it was, no later node is entered
\* and the run ends FAILED.
C9_PlannerFailureIsFatal ==
    PlannerFailed =>
        /\ state = initial_state(Request)
        /\ stage_log = <<"planner">>
        /\ pc \in {"raised", "done"}
        /\ pc = "done" => JobStatus = "failed"

FinalCriticFailed ==
    /\ "final_critic" \in Range(stage_log)
    /\ pc \in {"END", "done"}
    /\ ~critic_ok(response)

\* C10: when the final critic's call or score parsing fails, the run ends COMPLETED
\* (never FAILED) and the bundle returned holds the posts and comments content
\* generation produced, with the all-zero placeholder assessment.
C10_FinalCriticFailureAbsorbed ==
    FinalCriticFailed =>
        /\ Has(state, "final_content")
        /\ state.final_content = GeneratedContent(posts, comments, ZeroScore)
        /\ JobStatus # "failed"
        /\ pc = "done" =>
              /\ JobStatus = "completed"
              /\ ~Has(jobs_db[TheJob], "error")
              /\ jobs_db[TheJob].result.posts = posts
              /\ jobs_db[TheJob].result.comments = comments
              /\ jobs_db[TheJob].result.quality_assessment = ZeroScore

\* a completed run with posts and comments whose final critic failed
C10_Witness ==
    /\ FinalCriticFailed
    /\ pc = "done"
    /\ Len(posts) >= 1
    /\ Len(comments) >= 2
    /\ JobStatus = "completed"

(***************************************************************************)
(* Properties of content generation                                        *)
(***************************************************************************)
\* the content generator has been entered and has left (returned or raised)
ContentGenerationOver ==
    "generate_content" \in Range(stage_log) /\ pc # "generate_content"

PlanItems == 1..Len(state.strategic_plan.posts)

\* the positions in ps of the posts generated from plan item k
PostsOfItem(ps, k) == { n \in 1..Len(ps) : ps[n].post_id = post_id_of(k) }

\* the positions in cs of the comments on the post of plan item k
CommentsOfItem(cs, k) == { n \in 1..Len(cs) : cs[n].post_id = post_id_of(k) }

\* C11: once content generation is over there is a bundle; it holds exactly one post
\* for every plan item whose post generation did not fail, and no post and no
\* comment for every item whose post generation failed (every item is processed,
\* also those after a failed one).
C11_PerPostIsolation ==
    ContentGenerationOver =>
        /\ Has(state, "generated_content")
        /\ \A k \in PlanItems :
              IF k \in post_failed
              THEN /\ PostsOfItem(state.generated_content.posts, k) = {}
                   /\ CommentsOfItem(state.generated_content.comments, k) = {}
              ELSE Cardinality(PostsOfItem(state.generated_content.posts, k)) = 1

\* plan item k has been left by the outer loop of the content generator
ItemFinished(k) == Has(state, "strategic_plan") /\ k \in PlanItems /\ k < i

\* C12: a comment that cannot be produced skips only that comment: for every plan
\* item that is finished and has its post, every one of its commenters was attempted.
C12_PerCommentIsolation ==
    \A k \in 1..MaxPosts :
        (ItemFinished(k) /\ PostsOfItem(posts, k) # {}) =>
            \A c \in 1..Len(state.strategic_plan.posts[k].commenting_personas) :
                <<k, c>> \in attempted

\* C13: a comment's parent_comment_id is absent, or it is the comment_id of a comment
\* of the same post that was appended strictly earlier; comment ids are distinct, so
\* the replies of each post form a forest.
C13_ParentIsEarlierSamePost ==
    /\ \A n \in 1..Len(comments) :
          comments[n].parent_comment_id # None =>
              \E m \in 1..(n - 1) :
                  /\ comments[m].comment_id = comments[n].parent_comment_id
                  /\ comments[m].post_id = comments[n].post_id
    /\ \A m, n \in 1..Len(comments) :
          comments[m].comment_id = comments[n].comment_id => m = n

\* a reply exists on a post that is not the first post to have comments
C13_Witness ==
    \E n \in 1..Len(comments) :
        /\ comments[n].parent_comment_id # None
        /\ comments[1].post_id # comments[n].post_id

\* the minutes since 2025-01-06 00:00 that a formatted timestamp denotes
minutes_of(ts) == ts.date * DAY + ts.time

\* the timestamp a comment is anchored to: its parent comment's when it has one,
\* its post's otherwise
anchor_timestamp(c) ==
    IF c.parent_comment_id # None
    THEN (CHOOSE p \in Range(comments) : p.comment_id = c.parent_comment_id).timestamp
    ELSE (CHOOSE p \in Range(posts) : p.post_id = c.post_id).timestamp

\* C14: every comment's timestamp is its anchor's timestamp plus its delay_minutes,
\* the anchor being the parent comment when there is one and the post otherwise.
C14_TimestampFromAnchor ==
    \A c \in Range(comments) :
        minutes_of(c.timestamp) = minutes_of(anchor_timestamp(c)) + c.delay_minutes

\* C15: every stored delay_minutes is strictly positive and no larger than the
\* longest realistic delay, whatever the generation call returned.
C15_DelayClamped ==
    \A c \in Range(comments) : c.delay_minutes > 0 /\ c.delay_minutes <= MAX_DELAY

\* C16: every post carries the scheduled date and time of day of the plan item it
\* was generated from and that item's primary persona as author, and no plan item
\* has more than one post.
C16_PostFromItsItem ==
    Has(state, "strategic_plan") =>
        /\ \A p \in Range(posts) :
              \E k \in PlanItems :
                  LET item == state.strategic_plan.posts[k]
                  IN /\ p.post_id = post_id_of(k)
                     /\ strptime_ok(item.scheduled_date, item.scheduled_time)
                     /\ p.timestamp.date = DateTable[item.scheduled_date]
                     /\ p.timestamp.time = TimeTable[item.scheduled_time]
                     /\ p.author_username = item.primary_persona
        /\ \A k \in PlanItems : Cardinality(PostsOfItem(posts, k)) <= 1

\* a finished run whose bundle holds the post of an item whose date was not
\* zero-padded
C16_Witness ==
    /\ JobStatus = "completed"
    /\ \E k \in PlanItems :
          /\ state.strategic_plan.posts[k].scheduled_date = "2025-1-9"
          /\ PostsOfItem(state.final_content.posts, k) # {}

(***************************************************************************)
(* Properties of the plan's personas and of the job's outcome              *)
(***************************************************************************)
\* every username a plan names, as primary or as commenting persona
plan_usernames(plan) ==
    UNION { {plan.posts[k].primary_persona} \cup Range(plan.posts[k].commenting_personas) :
              k \in 1..Len(plan.posts) }

\* C17: a plan stored in run state names only usernames of the supplied personas.
C17_StoredPlanNamesKnownPersonas ==
    Has(state, "strategic_plan") =>
        plan_usernames(state.strategic_plan) \subseteq DOMAIN personas_dict(state)

\* C18: a COMPLETED job carries the bundle of final_content as result and no error, a
\* FAILED job carries an error, no result and no stored calendar, no job carries
\* both, and a run that is over is COMPLETED or FAILED.
C18_OneTerminalOutcome ==
    /\ Has(jobs_db, TheJob) =>
          ~(Has(jobs_db[TheJob], "result") /\ Has(jobs_db[TheJob], "error"))
    /\ JobStatus = "completed" =>
          /\ Has(jobs_db[TheJob], "result")
          /\ Has(state, "final_content")
          /\ jobs_db[TheJob].result.posts = state.final_content.posts
          /\ jobs_db[TheJob].result.comments = state.final_content.comments
    /\ JobStatus = "failed" =>
          /\ Has(jobs_db[TheJob], "error")
          /\ ~Has(jobs_db[TheJob], "result")
          /\ DOMAIN calendars_db = {}
    /\ pc = "done" => JobStatus \in {"completed", "failed"}
    /\ Has(jobs_db, TheJob) /\ (Has(jobs_db[TheJob], "result") \/ Has(jobs_db[TheJob], "error"))
          => pc = "done"

\* a run that failed after a post had already been generated
C18_Witness == pc = "done" /\ JobStatus = "failed" /\ Len(posts) > 0

\* C19: a failed run fails in the stage where the fault occurred: a fault of the
\* planner's call makes the planner the last stage entered, and an unknown primary
\* persona makes the content generator the last stage entered.
C19_FailureNamesFaultStage ==
    (pc = "done" /\ JobStatus = "failed") =>
        /\ PlannerFailed => Last(stage_log) = "planner"
        /\ jobs_db[TheJob].error = "KeyError: primary_persona"
              => Last(stage_log) = "generate_content"

\* the ceilings a caller may want to supply
SuppliedCeilings == 0..MaxGateIter

\* C20: whatever ceiling m the caller supplies, the run performs at most m refinements.
C20_CeilingIsSupplied ==
    \A m \in SuppliedCeilings : Count(stage_log, "refine_plan") <= m

(***************************************************************************)
(* Properties of the request layer                                         *)
(***************************************************************************)
\* the usernames of a persona list are pairwise distinct
usernames_distinct(ps) ==
    \A m, n \in 1..Len(ps) : ps[m].username = ps[n].username => m = n

\* C21: a run is started only on a request that satisfies the preconditions: persona
\* usernames pairwise distinct, every subreddit well-formed, at least 2 personas, 1
\* subreddit and 1 query, posts_per_week in 1..15 and week_number in 1..52.
C21_RunOnlyOnValidRequest ==
    Running =>
        /\ usernames_distinct(state.personas)
        /\ validate_subreddits(state.subreddits)
        /\ Len(state.personas) >= MIN_PERSONAS
        /\ Len(state.subreddits) >= 1
        /\ Len(state.target_queries) >= 1
        /\ state.posts_per_week \in 1..MAX_POSTS_PER_WEEK
        /\ state.week_number \in 1..MAX_WEEK_NUMBER

(***************************************************************************)
(* Properties of the gate and of the critics                               *)
(***************************************************************************)
\* C22: the gate's decision depends on the overall score, the counter and the
\* ceiling only (any other score with the same overall score gives the same
\* decision), the decision returned is the function's value on the run state, and a
\* gate call leaves the run state as it was.
C22_GateIsPure ==
    /\ []((pc = "should_refine_plan" /\ Has(state, "quality_score")) =>
            \A q \in GateScores :
                q.overall_score = state.quality_score.overall_score =>
                    should_refine_plan(Put(state, "quality_score", q))
                        = should_refine_plan(state))
    /\ [][pc = "should_refine_plan" =>
            /\ state' = state
            /\ Has(state, "quality_score") =>
                  gate_log' = Append(gate_log, should_refine_plan(state))]_vars

\* the gate has decided to proceed on a score whose sub-scores are all low
C22_Witness ==
    /\ gate_log = <<"generate_content">>
    /\ state.quality_score.naturalness < THRESHOLD
    /\ state.refinement_iteration < state.max_iterations

\* a quality assessment with every score 0 and no issues and no suggestions
AllZero(q) ==
    /\ \A f \in ScoreFields : q[f] = 0
    /\ q.issues = <<>>
    /\ q.suggestions = <<>>

\* C23: the bundle that content generation hands to the final critic carries the
\* all-zero assessment; the bundle a run returns carries that placeholder when the
\* final critic's call failed and exactly the scores that call returned otherwise.
C23_AssessmentIsFinalCritics ==
    /\ pc = "final_critic" => AllZero(state.generated_content.quality_assessment)
    /\ (pc \in {"END", "done"} /\ Has(state, "final_content")) =>
          IF critic_ok(response)
          THEN /\ \A f \in ScoreFields :
                     state.final_content.quality_assessment[f] = response[f]
               /\ state.final_content.quality_assessment.issues = response.issues
          ELSE AllZero(state.final_content.quality_assessment)

\* a completed job whose result carries a final score that differs from the plan's
C23_Witness ==
    /\ JobStatus = "completed"
    /\ jobs_db[TheJob].result.quality_assessment.overall_score = 74
    /\ state.quality_score.overall_score = THRESHOLD

(***************************************************************************)
(* Properties of the order of generation                                   *)
(***************************************************************************)
\* a step of the content generator that appends a comment
CommentAppended == pc = "generate_content" /\ Len(comments') = Len(comments) + 1

\* the positions of the comments already created for the post with identifier pid
EarlierOnPost(pid) == { n \in 1..Len(comments) : comments[n].post_id = pid }

IdsWellFormed(ps, cs) ==
    /\ \A m, n \in 1..Len(ps) : ps[m].post_id = ps[n].post_id => m = n
    /\ \A n \in 1..Len(cs) : cs[n].comment_id = <<"C", n>>
    /\ \A n \in 1..Len(cs) : \E m \in 1..Len(ps) : cs[n].post_id = ps[m].post_id

\* C25: in the lists being built and in every bundle, post identifiers are pairwise
\* distinct, the comment identifiers are C1..Cn in list order without a gap, and
\* every comment's post_id is the identifier of a post of the bundle.
C25_IdentifiersWellFormed ==
    /\ IdsWellFormed(posts, comments)
    /\ Has(state, "generated_content") =>
          IdsWellFormed(state.generated_content.posts, state.generated_content.comments)
    /\ Has(state, "final_content") =>
          IdsWellFormed(state.final_content.posts, state.final_content.comments)

\* a completed job whose bundle has two comments although a comment was skipped
C25_Witness ==
    /\ JobStatus = "completed"
    /\ Len(jobs_db[TheJob].result.comments) = 2
    /\ Cardinality(attempted) > 2

\* the plan item a post or comment identifier <<"P", k>> belongs to
item_of(pid) == pid[2]

\* the usernames of the comments cs[n], n \in ns, read in list order, follow the
\* order of the commenting-persona list cp
FollowsRoster(cs, ns, cp) ==
    \E f \in [ns -> 1..Len(cp)] :
        /\ \A n \in ns : cp[f[n]] = cs[n].username
        /\ \A m, n \in ns : m < n => f[m] < f[n]

\* C26: posts are listed in the order of their plan items; comments are listed post
\* by post in that same order and, within a post, in the order of the item's
\* commenting personas; a comment is appended only when the post of the item being
\* processed is already in the list.
C26_OutputOrder ==
    /\ [](/\ \A m, n \in 1..Len(posts) :
                m < n => item_of(posts[m].post_id) < item_of(posts[n].post_id)
          /\ \A m, n \in 1..Len(comments) :
                m < n => item_of(comments[m].post_id) <= item_of(comments[n].post_id)
          /\ Has(state, "strategic_plan") =>
                \A p \in Range(posts) :
                    FollowsRoster(comments, EarlierOnPost(p.post_id),
                        state.strategic_plan.posts[item_of(p.post_id)].commenting_personas))
    /\ [][CommentAppended =>
            /\ comments'[Len(comments')].post_id = post_id_of(i)
            /\ \E p \in Range(posts) : p.post_id = post_id_of(i)]_vars

\* a finished run with two posts, the first comment on the first of them and the last
\* comment on the second
C26_Witness ==
    /\ pc = "done"
    /\ Len(posts) = 2
    /\ Len(comments) >= 2
    /\ comments[1].post_id = posts[1].post_id
    /\ comments[Len(comments)].post_id = posts[2].post_id

(***************************************************************************)
(* Frame properties of the critics                                         *)
(***************************************************************************)
\* every key of st other than those of `written` is in st2 with the same value, and
\* st2 has no other new key
SameExcept(st, st2, written) ==
    /\ DOMAIN st2 \subseteq DOMAIN st \cup written
    /\ \A k \in DOMAIN st \ written : Has(st2, k) /\ st2[k] = st[k]

\* C27: a plan-critic step changes nothing of the run state but quality_score and
\* plan_critique (so the plan, the counter and the inputs stay), and a failed
\* plan-critic call changes nothing at all.
C27_PlanCriticFrame ==
    [][pc = "plan_critic" =>
         /\ SameExcept(state, state', {"quality_score", "plan_critique"})
         /\ (Len(critic_log') > Len(critic_log) /\ Last(critic_log') = "fail")
               => state' = state]_vars

\* a plan critic call has just failed while an earlier score was stored
C27_Witness ==
    /\ pc = "should_refine_plan"
    /\ Len(critic_log) >= 2
    /\ Last(critic_log) = "fail"
    /\ Has(state, "quality_score")
    /\ state.refinement_iteration = 1

\* C28: a final-critic step changes nothing of the run state but generated_content,
\* final_content and content_critique; the posts and comments of the bundle stay as
\* they were, and afterwards final_content is set and holds those posts and comments.
C28_FinalCriticFrame ==
    [][pc = "final_critic" =>
         /\ SameExcept(state, state',
                       {"generated_content", "final_content", "content_critique"})
         /\ state'.generated_content.posts = state.generated_content.posts
         /\ state'.generated_content.comments = state.generated_content.comments
         /\ Has(state', "final_content")
         /\ state'.final_content.posts = state.generated_content.posts
         /\ state'.final_content.comments = state.generated_content.comments]_vars

\* the final critic has succeeded on a bundle that has comments
C28_Witness ==
    /\ pc = "END"
    /\ Has(state, "content_critique")
    /\ Len(state.final_content.comments) >= 1
    /\ state.refinement_iteration >= 1

\* C29: when the gate proceeds with the counter below the ceiling, the score it read
\* is the one returned by the plan-critic call made just before it, and that call
\* succeeded: a score kept from before a failed call never approves a plan.
C29_ApprovalOnFreshScore ==
    [][(/\ pc = "should_refine_plan"
        /\ pc' = "generate_content"
        /\ state.refinement_iteration < state.max_iterations) =>
            /\ stage_log[Len(stage_log) - 1] = "plan_critic"
            /\ Last(critic_log) = "ok"
            /\ critic_ok(response)
            /\ \A f \in ScoreFields : state.quality_score[f] = response[f]]_vars

\* the gate has just approved, below the ceiling, the plan of the first refinement
C29_Witness ==
    /\ pc = "generate_content"
    /\ i = 1 /\ j = 0 /\ posts = <<>>
    /\ critic_log = <<"low", "ok">>
    /\ state.refinement_iteration = 1

(***************************************************************************)
(* Properties of the generation calls                                      *)
(***************************************************************************)
\* C30: a run makes at most 1 planner call, max_iterations refinement calls,
\* max_iterations + 1 plan-critic calls and 1 final-critic call, and at most one post
\* call per plan item and one comment call per item and commenting persona: no call
\* is made twice.
C30_CallsBounded ==
    /\ Count(call_log, <<"planner">>) <= 1
    /\ Count(call_log, <<"final_critic">>) <= 1
    /\ Running =>
          /\ Count(call_log, <<"refine_plan">>) <= state.max_iterations
          /\ Count(call_log, <<"plan_critic">>) <= state.max_iterations + 1
    /\ \A k \in 1..Len(call_log) :
          /\ call_log[k][1] \in {"post", "comment"} =>
                /\ Count(call_log, call_log[k]) = 1
                /\ call_log[k][2] \in PlanItems
          /\ call_log[k][1] = "comment" =>
                call_log[k][3] \in
                    1..Len(state.strategic_plan.posts[call_log[k][2]].commenting_personas)

\* a completed run that used both refinements, made three plan-critic calls and a
\* comment call, and in which some call failed
C30_Witness ==
    /\ JobStatus = "completed"
    /\ Count(call_log, <<"refine_plan">>) = MAX_ITERATIONS
    /\ Count(call_log, <<"plan_critic">>) = MAX_ITERATIONS + 1
    /\ \E k \in 1..Len(call_log) : call_log[k][1] = "comment"
    /\ other_failed

(***************************************************************************)
(* Properties of the jobs                                                  *)
(***************************************************************************)
JobsWith(status) == { jid \in DOMAIN jobs_db : jobs_db[jid].status = status }

Finished(jid) == jobs_db[jid].status \in {"completed", "failed"}

\* C31: a job is created PENDING and its status only moves PENDING -> PROCESSING ->
\* COMPLETED or FAILED; the record of a finished job never changes again, whatever
\* is posted, run or deleted later; and in the step that makes a job COMPLETED its
\* result is stored in calendars_db under the calendar_id the result reports.
C31_JobLifecycle ==
    [][/\ \A jid \in DOMAIN jobs_db' \ DOMAIN jobs_db :
              jobs_db'[jid].status = "pending"
       /\ \A jid \in DOMAIN jobs_db :
              /\ Has(jobs_db', jid)
              /\ \/ jobs_db'[jid].status = jobs_db[jid].status
                 \/ <<jobs_db[jid].status, jobs_db'[jid].status>> \in
                        { <<"pending", "processing">>,
                          <<"processing", "completed">>,
                          <<"processing", "failed">> }
              /\ Finished(jid) => jobs_db'[jid] = jobs_db[jid]
              /\ (jobs_db[jid].status # "completed"
                    /\ jobs_db'[jid].status = "completed") =>
                    /\ Has(jobs_db'[jid], "result")
                    /\ Has(calendars_db', jobs_db'[jid].result.calendar_id)
                    /\ calendars_db'[jobs_db'[jid].result.calendar_id]
                          = jobs_db'[jid].result]_vars

\* two jobs have finished, one of them COMPLETED, and its calendar has been deleted
C31_Witness ==
    /\ Cardinality(JobsWith("completed") \cup JobsWith("failed")) = 2
    /\ \E jid \in JobsWith("completed") :
          ~Has(calendars_db, jobs_db[jid].result.calendar_id)

\* C32: a step changes the record of no job but the one whose task takes the step (a
\* PENDING job that starts, or the PROCESSING job), at most one task runs at a time,
\* a task starts on the initial run state of its own request with empty content, the
\* run state keeps the inputs of the job being processed, and the result of a
\* COMPLETED job reports the week of its own request.
C32_JobsAreIsolated ==
    /\ [](/\ Cardinality(JobsWith("processing")) <= 1
          /\ \A jid \in JobsWith("processing") :
                \A k \in DOMAIN initial_state(tasks[jid]) \ {"refinement_iteration"} :
                    Has(state, k) /\ state[k] = initial_state(tasks[jid])[k]
          /\ \A jid \in JobsWith("completed") :
                jobs_db[jid].result.week_number = tasks[jid].week_number)
    /\ [][\A jid \in DOMAIN jobs_db :
              /\ jobs_db'[jid] # jobs_db[jid] =>
                    jobs_db[jid].status \in {"pending", "processing"}
              /\ (jobs_db[jid].status = "pending"
                    /\ jobs_db'[jid].status = "processing") =>
                    /\ state' = initial_state(tasks[jid])
                    /\ posts' = <<>>
                    /\ comments' = <<>>]_vars

\* the first job has FAILED, the second job has COMPLETED after it
C32_Witness ==
    /\ Has(jobs_db, "job_2")
    /\ jobs_db[TheJob].status = "failed"
    /\ jobs_db["job_2"].status = "completed"
    /\ jobs_db["job_2"].result.week_number # tasks[TheJob].week_number

====
